---- MODULE Spec2Model ----
(***************************************************************************)
(* A model of eqmaps: the map-file line parser (src/src/map_items.rs), the *)
(* file loader built on it, and the view-box and SVG builders              *)
(* (src/src/map_draw.rs).                                                  *)
(*                                                                         *)
(* Text is modelled as a sequence of one-character strings.  The model     *)
(* alphabet has no ".", so the numeric literals of the model are integers, *)
(* "inf" and "NaN"; an f32 is [k, v] with k one of "num", "inf", "nan".    *)
(***************************************************************************)
EXTENDS Integers, Sequences, FiniteSets, TLC

VARIABLES
    line,       \* parser: the text handed to MapItem::parse
    parsed,     \* parser: the Result it returned (NoResult before the call)
    files,      \* loader: the file system, one entry per path given
    opened,     \* loader: indices of the paths File::open was called on
    fi,         \* loader: index of the path load_from_files is at
    pos,        \* loader: lines of the current file consumed so far
    cur,        \* loader: items load_from_file collected from the current file
    items,      \* loader: the Vec load_from_files pushes to
    pc,         \* loader: position in load_from_files
    ret,        \* loader: what load_from_files returned (NoResult before)
    read_err,   \* loader: whether some read of an opened file has failed
    polls,      \* loader: parity of the polls of the current file's lines
    map_items,  \* drawing: the MapItems handed to svg()
    view_box,   \* drawing: what map_view_box returned (NoResult before)
    svg,        \* drawing: the document, one entry per push_str
    dpc         \* drawing: position in MapItems::svg

vars == <<line, parsed, files, opened, fi, pos, cur, items, pc, ret, read_err,
          polls, map_items, view_box, svg, dpc>>

parseVars == <<line, parsed>>
loadVars == <<files, opened, fi, pos, cur, items, pc, ret, read_err, polls>>
drawVars == <<map_items, view_box, svg, dpc>>

NoResult == [tag |-> "none"]

(***************************************************************************)
(* Text helpers.                                                           *)
(***************************************************************************)
Digits == {"0", "1", "2", "3", "4", "5", "6", "7", "8", "9"}

DigitVal(c) ==
    CASE c = "0" -> 0 [] c = "1" -> 1 [] c = "2" -> 2 [] c = "3" -> 3
      [] c = "4" -> 4 [] c = "5" -> 5 [] c = "6" -> 6 [] c = "7" -> 7
      [] c = "8" -> 8 [] c = "9" -> 9

\* char::to_ascii_lowercase on the letters of the model alphabet
Lower(c) ==
    CASE c = "N" -> "n" [] c = "A" -> "a" [] c = "I" -> "i" [] c = "F" -> "f"
      [] OTHER -> c

LowerAll(s) == [i \in 1..Len(s) |-> Lower(s[i])]

\* the regex class \s, restricted to the model alphabet
IsWhite(c) == c \in {" ", "\t"}

Tail_(s, i) == SubSeq(s, i, Len(s))

(***************************************************************************)
(* The f32 and u8 values and their FromStr implementations.                *)
(***************************************************************************)
Num(n) == [k |-> "num", v |-> n]
NaN == [k |-> "nan", v |-> 0]
PInf == [k |-> "inf", v |-> 1]
NInf == [k |-> "inf", v |-> -1]

Ok(v) == [ok |-> TRUE, val |-> v]
Err(e) == [ok |-> FALSE, err |-> e]

RECURSIVE DecimalValue(_, _)
\* the value of a run of decimal digits, most significant first
DecimalValue(s, acc) ==
    IF s = <<>> THEN acc
    ELSE DecimalValue(Tail(s), 10 * acc + DigitVal(Head(s)))

AllDigits(s) == \A i \in 1..Len(s) : s[i] \in Digits

\* U8Parse keeping the low 8 bits of a value that does not fit
U8Parse_wrapping(s) ==
    IF s = <<>> THEN Err("Empty")
    ELSE LET digits == IF Head(s) = "+" THEN Tail(s) ELSE s
         IN  IF digits = <<>> \/ ~AllDigits(digits) THEN Err("InvalidDigit")
             ELSE Ok(DecimalValue(digits, 0) % 256)

\* <u8 as FromStr>::from_str: an optional "+", then one or more digits, no
\* surrounding whitespace, and a value that fits 8 bits
U8Parse(s) ==
    IF s = <<>> THEN Err("Empty")
    ELSE LET digits == IF Head(s) = "+" THEN Tail(s) ELSE s
         IN  IF digits = <<>> \/ ~AllDigits(digits) THEN Err("InvalidDigit")
             ELSE IF DecimalValue(digits, 0) > 255 THEN Err("PosOverflow")
             ELSE Ok(DecimalValue(digits, 0))

\* <f32 as FromStr>::from_str: an optional sign, then "inf", "infinity" or
\* "nan" in any case, or a decimal number
F32Parse(s) ==
    LET signed == s # <<>> /\ Head(s) \in {"+", "-"}
        neg == s # <<>> /\ Head(s) = "-"
        body == IF signed THEN Tail(s) ELSE s
        low == LowerAll(body)
    IN  IF low = <<"n", "a", "n">> THEN Ok(NaN)
        ELSE IF low \in {<<"i", "n", "f">>,
                         <<"i", "n", "f", "i", "n", "i", "t", "y">>}
             THEN Ok(IF neg THEN NInf ELSE PInf)
        ELSE IF body # <<>> /\ AllDigits(body)
             THEN Ok(Num(IF neg THEN 0 - DecimalValue(body, 0)
                                ELSE DecimalValue(body, 0)))
        ELSE Err("ParseFloatError")

(***************************************************************************)
(* str::split_once(' ') and LINE_CONTENT_SEPARATOR.split.                  *)
(***************************************************************************)
HasSpace(s) == \E i \in 1..Len(s) : s[i] = " "

FirstSpace(s) == CHOOSE i \in 1..Len(s) :
                    s[i] = " " /\ \A j \in 1..(i - 1) : s[j] # " "

\* the part after the first space; the part before it is discarded
split_once(s) ==
    IF HasSpace(s) THEN Ok(Tail_(s, FirstSpace(s) + 1)) ELSE Err("None")

RECURSIVE SkipWhite(_, _)
\* the first index at or after i that holds no whitespace
SkipWhite(s, i) ==
    IF i <= Len(s) /\ IsWhite(s[i]) THEN SkipWhite(s, i + 1) ELSE i

RECURSIVE SplitFrom(_, _, _)
\* the pieces of s from start on, the scan being at i
SplitFrom(s, i, start) ==
    IF i > Len(s) THEN <<Tail_(s, start)>>
    ELSE IF s[i] = "," /\ i < Len(s) /\ IsWhite(s[i + 1])
         THEN <<SubSeq(s, start, i - 1)>>
                  \o SplitFrom(s, SkipWhite(s, i + 1), SkipWhite(s, i + 1))
         ELSE SplitFrom(s, i + 1, start)

\* Regex ",\s+" split: the text between the matches, empty pieces included
LINE_CONTENT_SEPARATOR_split(s) == SplitFrom(s, 1, 1)

(***************************************************************************)
(* The parsers of map_items.rs.                                            *)
(***************************************************************************)
Point_parse(x, y, z) ==
    IF ~F32Parse(x).ok THEN Err("ParseFloatError")
    ELSE IF ~F32Parse(y).ok THEN Err("ParseFloatError")
    ELSE IF ~F32Parse(z).ok THEN Err("ParseFloatError")
    ELSE Ok([x |-> F32Parse(x).val, y |-> F32Parse(y).val, z |-> F32Parse(z).val])

Color_parse(r, g, b) ==
    IF ~U8Parse(r).ok THEN Err("ParseIntError")
    ELSE IF ~U8Parse(g).ok THEN Err("ParseIntError")
    ELSE IF ~U8Parse(b).ok THEN Err("ParseIntError")
    ELSE Ok([r |-> U8Parse(r).val, g |-> U8Parse(g).val, b |-> U8Parse(b).val])

\* PointItem_parse taking the first 8 segments of 8 or more
PointItem_parse_at_least(l) ==
    IF ~split_once(l).ok THEN Err("No line content")
    ELSE LET segments == LINE_CONTENT_SEPARATOR_split(split_once(l).val)
         IN  IF Len(segments) < 8 THEN Err("Not enough line content segments")
             ELSE LET point == Point_parse(segments[1], segments[2], segments[3])
                      color == Color_parse(segments[4], segments[5], segments[6])
                  IN  IF ~point.ok THEN point
                      ELSE IF ~color.ok THEN color
                      ELSE Ok([type |-> "PointItem", point |-> point.val,
                               color |-> color.val, label |-> segments[8]])

PointItem_parse(l) ==
    IF ~split_once(l).ok THEN Err("No line content")
    ELSE LET segments == LINE_CONTENT_SEPARATOR_split(split_once(l).val)
         IN  IF Len(segments) # 8 THEN Err("Not enough line content segments")
             ELSE LET point == Point_parse(segments[1], segments[2], segments[3])
                      color == Color_parse(segments[4], segments[5], segments[6])
                  IN  IF ~point.ok THEN point
                      ELSE IF ~color.ok THEN color
                      ELSE Ok([type |-> "PointItem", point |-> point.val,
                               color |-> color.val, label |-> segments[8]])

LineItem_parse(l) ==
    IF ~split_once(l).ok THEN Err("No line content")
    ELSE LET segments == LINE_CONTENT_SEPARATOR_split(split_once(l).val)
         IN  IF Len(segments) # 9 THEN Err("Not enough line content segments")
             ELSE LET from == Point_parse(segments[1], segments[2], segments[3])
                      to == Point_parse(segments[4], segments[5], segments[6])
                      color == Color_parse(segments[7], segments[8], segments[9])
                  IN  IF ~from.ok THEN from
                      ELSE IF ~to.ok THEN to
                      ELSE IF ~color.ok THEN color
                      ELSE Ok([type |-> "LineItem", from |-> from.val,
                               to |-> to.val, color |-> color.val])

MapItem_parse(l) ==
    IF l = <<>> THEN Err("Missing line identifier")
    ELSE IF Head(l) = "P" THEN PointItem_parse(l)
    ELSE IF Head(l) = "L" THEN LineItem_parse(l)
    ELSE Err("Unrecognized line identifier")

(***************************************************************************)
(* The parser on its own: MapItem::parse applied to one line of text.      *)
(***************************************************************************)
MaxExtra == 2

PointFields == << <<"1">>, <<"-", "5">>, <<"0">>, <<"2", "5", "5">>, <<"0">>,
                  <<"7">>, <<"3">>, <<"h">> >>

LineFields == << <<"0">>, <<"0">>, <<"0">>, <<"1", "0">>, <<"5">>, <<"0">>,
                 <<"0">>, <<"2", "5", "5">>, <<"9">> >>

FieldTokens == { <<"2", "5", "6">>, <<"3", "0", "0">>, <<"x">>, <<>>,
                 <<"+", "7">>, <<"0", "7">>, <<"-", "1">>, <<"N", "a", "N">>,
                 <<"i", "n", "f">>, <<"7", " ">>, <<"h", ",", " ", "h">> }

LinePrefixes == { <<"P", " ">>, <<"L", " ">>, <<"P">>, <<"L">>,
                  <<"P", "x", " ">>, <<"L", "7", " ">>, <<"P", " ", " ">>,
                  <<"P", "\t">>, <<"L", "\t">>, <<"X", " ">>, <<>> }

FieldSeparators == { <<",", " ">>, <<",", "\t">>, <<",", " ", " ">>, <<",">>,
                     <<" ", ",", " ">> }

RECURSIVE Join(_, _)
Join(fields, sep) ==
    IF fields = <<>> THEN <<>>
    ELSE IF Len(fields) = 1 THEN fields[1]
    ELSE fields[1] \o sep \o Join(Tail(fields), sep)

\* a base line cut or extended to n fields, and a base line with one field
\* replaced
FieldLists ==
    UNION { { [i \in 1..n |-> IF i <= Len(base) THEN base[i] ELSE <<"h">>] :
                  n \in 0..(Len(base) + MaxExtra) }
            \cup { [base EXCEPT ![i] = t] : i \in 1..Len(base), t \in FieldTokens } :
            base \in {PointFields, LineFields} }

ParseLines ==
    { prefix \o Join(fields, sep) :
        prefix \in LinePrefixes, fields \in FieldLists, sep \in FieldSeparators }

LoadIdle ==
    /\ files = <<>> /\ opened = {} /\ fi = 0 /\ pos = 0 /\ cur = <<>>
    /\ items = <<>> /\ pc = "idle" /\ ret = NoResult /\ read_err = FALSE
    /\ polls = 0

DrawIdle ==
    /\ map_items = <<>> /\ view_box = NoResult /\ svg = <<>> /\ dpc = "idle"

ParseInit ==
    /\ line \in ParseLines
    /\ parsed = NoResult
    /\ LoadIdle
    /\ DrawIdle

Parse ==
    /\ parsed = NoResult
    /\ parsed' = MapItem_parse(line)
    /\ UNCHANGED <<line, loadVars, drawVars>>

ParseNext == Parse

ParseSpec == ParseInit /\ [][ParseNext]_vars

(***************************************************************************)
(* The loader: MapItems::load_from_files over a file system.  A path is    *)
(* missing (File::open fails), a directory (File::open succeeds and every  *)
(* read fails) or a file of lines; a line is text or bytes that are not    *)
(* UTF-8, for which BufRead::lines yields an Err and moves on.             *)
(***************************************************************************)
MaxFiles == 2
MaxLines == 3

GoodPoint == <<"P", " ">> \o Join(PointFields, <<",", " ">>)
GoodLine == <<"L", " ">> \o Join(LineFields, <<",", " ">>)
WrongTag == <<"X", " ">> \o Join(PointFields, <<",", " ">>)
WrongCount == <<"L", " ">> \o Join(PointFields, <<",", " ">>)
BadColor == <<"P", " ">> \o Join([PointFields EXCEPT ![5] = <<"2", "5", "6">>],
                                 <<",", " ">>)
EmptyLine == <<>>

\* a file holds lines by name: the texts above, and a line of bytes that are
\* not UTF-8
TextNames == {"GoodPoint", "GoodLine", "WrongTag", "WrongCount", "BadColor",
              "EmptyLine"}

LineEntries == TextNames \cup {"InvalidUtf8"}

IsUtf8(e) == e # "InvalidUtf8"

TextOf(e) ==
    CASE e = "GoodPoint" -> GoodPoint
      [] e = "GoodLine" -> GoodLine
      [] e = "WrongTag" -> WrongTag
      [] e = "WrongCount" -> WrongCount
      [] e = "BadColor" -> BadColor
      [] e = "EmptyLine" -> EmptyLine

FileKinds == {"file", "missing", "dir"}

RECURSIVE SumTo(_, _)
\* lens[1] + ... + lens[i]
SumTo(lens, i) == IF i = 0 THEN 0 ELSE lens[i] + SumTo(lens, i - 1)

\* the file system of n paths of the given kinds, the i-th holding lens[i]
\* lines, cut in path order from content
FileSystem(n, kinds, lens, content) ==
    [i \in 1..n |->
        [kind |-> kinds[i],
         lines |-> SubSeq(content, SumTo(lens, i - 1) + 1, SumTo(lens, i))]]

\* MapItem::parse on each text a file can hold
ParseOf == [e \in TextNames |-> MapItem_parse(TextOf(e))]

\* the closure load_from_file hands to filter_map
filter_map_line(e) ==
    IF IsUtf8(e)
    THEN IF ParseOf[e].ok THEN <<ParseOf[e].val>> ELSE <<>>
    ELSE <<>>

\* push_all putting a file's items in front of those of the earlier files
push_all_front(vec, file_items) == file_items \o vec

\* the loop of load_from_files that moves a file's items into its own Vec
push_all(vec, file_items) == vec \o file_items

ParseIdle == line = <<>> /\ parsed = NoResult

Init ==
    /\ \E n \in 0..MaxFiles :
         \E kinds \in [1..n -> FileKinds], lens \in [1..n -> 0..MaxLines] :
            /\ SumTo(lens, n) <= MaxLines
            /\ \A i \in 1..n : kinds[i] # "file" => lens[i] = 0
            /\ \E content \in [1..SumTo(lens, n) -> LineEntries] :
                  files = FileSystem(n, kinds, lens, content)
    /\ opened = {}
    /\ fi = 0
    /\ pos = 0
    /\ cur = <<>>
    /\ items = <<>>
    /\ pc = "loop"
    /\ ret = NoResult
    /\ read_err = FALSE
    /\ polls = 0
    /\ ParseIdle
    /\ DrawIdle

\* OpenFail with the error dropped and the loop going on to the next path
OpenFail_skipped ==
    /\ pc = "loop" /\ fi < Len(files)
    /\ files[fi + 1].kind = "missing"
    /\ fi' = fi + 1
    /\ opened' = opened \cup {fi + 1}
    /\ cur' = <<>>
    /\ UNCHANGED <<files, pos, items, pc, ret, read_err, polls, parseVars, drawVars>>

\* File::open(path)? fails: the error leaves load_from_file and, by the ? of
\* load_from_files, the whole load
OpenFail ==
    /\ pc = "loop" /\ fi < Len(files)
    /\ files[fi + 1].kind = "missing"
    /\ fi' = fi + 1
    /\ opened' = opened \cup {fi + 1}
    /\ pc' = "failed"
    /\ ret' = Err("io")
    /\ UNCHANGED <<files, pos, cur, items, read_err, polls, parseVars, drawVars>>

OpenOk ==
    /\ pc = "loop" /\ fi < Len(files)
    /\ files[fi + 1].kind # "missing"
    /\ fi' = fi + 1
    /\ opened' = opened \cup {fi + 1}
    /\ pos' = 0
    /\ cur' = <<>>
    /\ pc' = "reading"
    /\ polls' = 0
    /\ UNCHANGED <<files, items, ret, read_err, parseVars, drawVars>>

\* ReadLine as a map_while: the first line that does not parse ends the file
ReadLine_map_while ==
    /\ pc = "reading" /\ files[fi].kind = "file"
    /\ pos < Len(files[fi].lines)
    /\ IsUtf8(files[fi].lines[pos + 1])
    /\ cur' = cur \o filter_map_line(files[fi].lines[pos + 1])
    /\ pos' = IF filter_map_line(files[fi].lines[pos + 1]) = <<>>
              THEN Len(files[fi].lines) ELSE pos + 1
    /\ polls' = 1 - polls
    /\ UNCHANGED <<files, opened, fi, items, pc, ret, read_err, parseVars, drawVars>>

\* one turn of filter_map on a line that was read
ReadLine ==
    /\ pc = "reading" /\ files[fi].kind = "file"
    /\ pos < Len(files[fi].lines)
    /\ IsUtf8(files[fi].lines[pos + 1])
    /\ cur' = cur \o filter_map_line(files[fi].lines[pos + 1])
    /\ pos' = pos + 1
    /\ polls' = 1 - polls
    /\ UNCHANGED <<files, opened, fi, items, pc, ret, read_err, parseVars, drawVars>>

\* one turn of filter_map on a line whose read failed: the closure answers
\* None and the iterator goes on to the next line
ReadLineErr ==
    /\ pc = "reading" /\ files[fi].kind = "file"
    /\ pos < Len(files[fi].lines)
    /\ ~IsUtf8(files[fi].lines[pos + 1])
    /\ cur' = cur \o filter_map_line(files[fi].lines[pos + 1])
    /\ pos' = pos + 1
    /\ read_err' = TRUE
    /\ polls' = 1 - polls
    /\ UNCHANGED <<files, opened, fi, items, pc, ret, parseVars, drawVars>>

\* one turn of filter_map on a directory: the read fails, nothing is
\* consumed, and the iterator is not at its end
ReadDirErr ==
    /\ pc = "reading" /\ files[fi].kind = "dir"
    /\ read_err' = TRUE
    /\ polls' = 1 - polls
    /\ UNCHANGED <<files, opened, fi, pos, cur, items, pc, ret, parseVars, drawVars>>

\* the iterator ends: collect, Ok(MapItems), and the push loop of
\* load_from_files
EndOfFile ==
    /\ pc = "reading" /\ files[fi].kind = "file"
    /\ pos = Len(files[fi].lines)
    /\ items' = push_all(items, cur)
    /\ pc' = "loop"
    /\ polls' = 1 - polls
    /\ UNCHANGED <<files, opened, fi, pos, cur, ret, read_err, parseVars, drawVars>>

Return ==
    /\ pc = "loop" /\ fi = Len(files)
    /\ ret' = Ok(items)
    /\ pc' = "done"
    /\ UNCHANGED <<files, opened, fi, pos, cur, items, read_err, polls, parseVars, drawVars>>

Next ==
    \/ OpenFail
    \/ OpenOk
    \/ ReadLine
    \/ ReadLineErr
    \/ ReadDirErr
    \/ EndOfFile
    \/ Return

Spec == Init /\ [][Next]_vars

\* the loader runs on: a step that can be taken is taken
LiveSpec == Spec /\ WF_vars(Next)

(***************************************************************************)
(* Drawing: map_view_box and MapItems::svg of map_draw.rs.  The document   *)
(* is kept as its elements, one per push_str, each attribute holding the   *)
(* value that is formatted into it.                                        *)
(***************************************************************************)
MaxItems == 3

\* a < b on f32: false whenever either side is NaN
FLess(a, b) ==
    /\ a.k # "nan" /\ b.k # "nan"
    /\ CASE a.k = "num" /\ b.k = "num" -> a.v < b.v
         [] a.k = "inf" /\ b.k = "num" -> a.v < 0
         [] a.k = "num" /\ b.k = "inf" -> b.v > 0
         [] OTHER -> a.v < b.v

\* a - b on f32 (the finite values of the model subtract exactly)
FSub(a, b) ==
    IF a.k = "nan" \/ b.k = "nan" THEN NaN
    ELSE IF a.k = "inf" THEN (IF b.k = "inf" /\ b.v = a.v THEN NaN ELSE a)
    ELSE IF b.k = "inf" THEN (IF b.v > 0 THEN NInf ELSE PInf)
    ELSE Num(a.v - b.v)

float_ord(a, b) ==
    IF FLess(a, b) THEN "Less"
    ELSE IF FLess(b, a) THEN "Greater"
    ELSE "Equal"

RECURSIVE item_xs(_)
\* the xs pushed by the for_each of map_view_box
item_xs(its) ==
    IF its = <<>> THEN <<>>
    ELSE (IF Head(its).type = "LineItem"
          THEN <<Head(its).from.x, Head(its).to.x>>
          ELSE <<Head(its).point.x>>) \o item_xs(Tail(its))

RECURSIVE item_ys(_)
item_ys(its) ==
    IF its = <<>> THEN <<>>
    ELSE (IF Head(its).type = "LineItem"
          THEN <<Head(its).from.y, Head(its).to.y>>
          ELSE <<Head(its).point.y>>) \o item_ys(Tail(its))

RECURSIVE insert_sorted(_, _)
\* v put into the sorted s behind everything that is not Greater than it
insert_sorted(s, v) ==
    IF s = <<>> THEN <<v>>
    ELSE IF float_ord(v, s[Len(s)]) = "Less"
         THEN insert_sorted(SubSeq(s, 1, Len(s) - 1), v) \o <<s[Len(s)]>>
         ELSE s \o <<v>>

RECURSIVE stable_sort(_)
stable_sort(s) ==
    IF s = <<>> THEN <<>>
    ELSE insert_sorted(stable_sort(SubSeq(s, 1, Len(s) - 1)), s[Len(s)])

\* whether float_ord is a total order on the elements of s
TotalOn(s) == \A i \in 1..Len(s) : s[i].k # "nan"

\* the <<first, last>> that sort_by(float_ord) can leave: those of the sorted
\* slice when float_ord orders its elements, and otherwise, the order sort_by
\* leaves being unspecified, the elements at any two places
sort_by_ends(s) ==
    IF s = <<>> THEN {<<Num(0), Num(0)>>}
    ELSE IF TotalOn(s)
         THEN {<<stable_sort(s)[1], stable_sort(s)[Len(s)]>>}
         ELSE { <<s[p[1]], s[p[2]]>> :
                    p \in { q \in (1..Len(s)) \X (1..Len(s)) :
                               q[1] # q[2] \/ Len(s) = 1 } }

\* the values map_view_box can return
map_view_box(its) ==
    { <<ex[1], ey[1], FSub(ex[2], ex[1]), FSub(ey[2], ey[1])>> :
        ex \in sort_by_ends(item_xs(its)), ey \in sort_by_ends(item_ys(its)) }

Color_svg(c) == [fn |-> "rgb", r |-> c.r, g |-> c.g, b |-> c.b]

\* LineItem_svg drawing from `to` to `from`
LineItem_svg_reversed(it) ==
    [el |-> "path", mx |-> it.to.x, my |-> it.to.y,
     lx |-> it.from.x, ly |-> it.from.y,
     stroke |-> Color_svg(it.color), class |-> "line-item"]

LineItem_svg(it) ==
    [el |-> "path", mx |-> it.from.x, my |-> it.from.y,
     lx |-> it.to.x, ly |-> it.to.y,
     stroke |-> Color_svg(it.color), class |-> "line-item"]

PointItem_svg(it) ==
    [el |-> "circle", cx |-> it.point.x, cy |-> it.point.y, r |-> 3,
     fill |-> Color_svg(it.color), class |-> "point-item-circle"]

svg_open(vb) ==
    [el |-> "svg", width |-> vb[3], height |-> vb[4],
     viewBox |-> <<vb[1], vb[2], vb[3], vb[4]>>]

svg_close == [el |-> "/svg"]

\* the lines a drawn map is parsed from
PointText(x, y, z, r, g, b) ==
    <<"P", " ">> \o Join(<<x, y, z, r, g, b, <<"3">>, <<"h">>>>, <<",", " ">>)

LineText(fx, fy, fz, tx, ty, tz, r, g, b) ==
    <<"L", " ">> \o Join(<<fx, fy, fz, tx, ty, tz, r, g, b>>, <<",", " ">>)

DrawTexts ==
    { PointText(<<"3">>, <<"4">>, <<"0">>, <<"2", "5", "5">>, <<"0">>, <<"0">>),
      PointText(<<"-", "5">>, <<"-", "5">>, <<"9">>, <<"0">>, <<"2", "5", "5">>, <<"0">>),
      PointText(<<"1", "2">>, <<"-", "7">>, <<"1">>, <<"0">>, <<"0">>, <<"7">>),
      PointText(<<"N", "a", "N">>, <<"4">>, <<"0">>, <<"1">>, <<"2">>, <<"3">>),
      PointText(<<"1">>, <<"i", "n", "f">>, <<"0">>, <<"1">>, <<"2">>, <<"3">>),
      LineText(<<"0">>, <<"0">>, <<"0">>, <<"1", "0">>, <<"5">>, <<"0">>,
               <<"0">>, <<"2", "5", "5">>, <<"0">>),
      LineText(<<"1", "0">>, <<"5">>, <<"2">>, <<"-", "8">>, <<"6">>, <<"4">>,
               <<"9">>, <<"9">>, <<"9">>),
      LineText(<<"2">>, <<"N", "a", "N">>, <<"0">>, <<"1">>, <<"1">>, <<"0">>,
               <<"0">>, <<"0">>, <<"0">>) }

ItemUniverse == { MapItem_parse(t).val : t \in DrawTexts }

DrawInit ==
    /\ \E n \in 0..MaxItems : map_items \in [1..n -> ItemUniverse]
    /\ view_box = NoResult
    /\ svg = <<>>
    /\ dpc = "view_box"
    /\ ParseIdle
    /\ LoadIdle

\* let view_box = map_view_box(&self), and the opening tag
ViewBox ==
    /\ dpc = "view_box"
    /\ \E vb \in map_view_box(map_items) :
          /\ view_box' = vb
          /\ svg' = <<svg_open(vb)>>
    /\ dpc' = "items"
    /\ UNCHANGED <<map_items, parseVars, loadVars>>

\* one turn of the loop over self.items, the item being a LineItem
DrawLineItem ==
    /\ dpc = "items" /\ Len(svg) - 1 < Len(map_items)
    /\ map_items[Len(svg)].type = "LineItem"
    /\ svg' = Append(svg, LineItem_svg(map_items[Len(svg)]))
    /\ UNCHANGED <<map_items, view_box, dpc, parseVars, loadVars>>

\* one turn of the loop over self.items, the item being a PointItem
DrawPointItem ==
    /\ dpc = "items" /\ Len(svg) - 1 < Len(map_items)
    /\ map_items[Len(svg)].type = "PointItem"
    /\ svg' = Append(svg, PointItem_svg(map_items[Len(svg)]))
    /\ UNCHANGED <<map_items, view_box, dpc, parseVars, loadVars>>

CloseSvg ==
    /\ dpc = "items" /\ Len(svg) - 1 = Len(map_items)
    /\ svg' = Append(svg, svg_close)
    /\ dpc' = "done"
    /\ UNCHANGED <<map_items, view_box, parseVars, loadVars>>

DrawNext ==
    \/ ViewBox
    \/ DrawLineItem
    \/ DrawPointItem
    \/ CloseSvg

DrawSpec == DrawInit /\ [][DrawNext]_vars

(***************************************************************************)
(* The claims about the parser, under ParseSpec.                           *)
(***************************************************************************)
Called == parsed # NoResult

Tagged == line # <<>> /\ Head(line) \in {"P", "L"}

\* the places of s where a comma is followed by whitespace
SeparatorCount(s) ==
    Cardinality({i \in 1..(Len(s) - 1) : s[i] = "," /\ IsWhite(s[i + 1])})

\* the number of fields of the content of l, the text after its first space
FieldCount(l) == SeparatorCount(Tail_(l, FirstSpace(l) + 1)) + 1

WantedCount(l) == IF Head(l) = "P" THEN 8 ELSE 9

\* C4: a line that starts with P or L and whose second character is not the
\* separating space is a ParseError, never a MapItem.
C4_TagFollowedBySpace ==
    (Called /\ Tagged /\ (Len(line) < 2 \/ line[2] # " ")) => ~parsed.ok

\* C5: a P line gives a PointItem only with exactly 8 fields and an L line a
\* LineItem only with exactly 9; any other count is the field-count error.
C5_ExactFieldCounts ==
    Called =>
        /\ parsed.ok =>
              /\ Tagged /\ HasSpace(line)
              /\ FieldCount(line) = WantedCount(line)
              /\ parsed.val.type = (IF Head(line) = "P" THEN "PointItem" ELSE "LineItem")
        /\ (Tagged /\ HasSpace(line) /\ FieldCount(line) # WantedCount(line)) =>
              parsed = Err("Not enough line content segments")

\* a point line whose label holds a comma and a space has 9 fields and is
\* rejected for its count
C5_Witness ==
    /\ Called /\ Tagged /\ Head(line) = "P" /\ HasSpace(line)
    /\ FieldCount(line) = 9
    /\ parsed = Err("Not enough line content segments")

\* the r, g, b fields of a line with the right number of fields
ColorFields(l) ==
    LET segs == LINE_CONTENT_SEPARATOR_split(Tail_(l, FirstSpace(l) + 1))
    IN  IF Head(l) = "P" THEN <<segs[4], segs[5], segs[6]>>
        ELSE <<segs[7], segs[8], segs[9]>>

Unsigned(tok) == IF tok # <<>> /\ Head(tok) = "+" THEN Tail(tok) ELSE tok

\* a field that is a number of 0..255
IsChannel(tok) ==
    /\ Unsigned(tok) # <<>>
    /\ AllDigits(Unsigned(tok))
    /\ DecimalValue(Unsigned(tok), 0) <= 255

FullLine == Called /\ Tagged /\ HasSpace(line) /\ FieldCount(line) = WantedCount(line)

\* C6: the r, g, b of an item are in 0..255 and are the values written in
\* its line, and a line with an r, g or b that is not a number of 0..255
\* gives no item.
C6_ColorChannelsInRange ==
    FullLine =>
        LET toks == ColorFields(line)
        IN  /\ parsed.ok =>
                  /\ parsed.val.color.r \in 0..255
                  /\ parsed.val.color.g \in 0..255
                  /\ parsed.val.color.b \in 0..255
                  /\ parsed.val.color.r = DecimalValue(Unsigned(toks[1]), 0)
                  /\ parsed.val.color.g = DecimalValue(Unsigned(toks[2]), 0)
                  /\ parsed.val.color.b = DecimalValue(Unsigned(toks[3]), 0)
            /\ (\E c \in 1..3 : ~IsChannel(toks[c])) => ~parsed.ok

\* a line whose only fault is a channel of 256 gives no item
C6_Witness ==
    /\ FullLine
    /\ \E c \in 1..3 : ColorFields(line)[c] = <<"2", "5", "6">>
    /\ parsed = Err("ParseIntError")

(***************************************************************************)
(* The claims about the loader, under Spec and LiveSpec.                   *)
(***************************************************************************)
RECURSIVE ValidItems(_)
\* the items of the lines of ls that were read and parsed, in line order
ValidItems(ls) ==
    IF ls = <<>> THEN <<>>
    ELSE (IF IsUtf8(Head(ls)) /\ ParseOf[Head(ls)].ok
          THEN <<ParseOf[Head(ls)].val>> ELSE <<>>) \o ValidItems(Tail(ls))

RECURSIVE ConcatFiles(_)
ConcatFiles(fs) ==
    IF fs = <<>> THEN <<>>
    ELSE ValidItems(Head(fs).lines) \o ConcatFiles(Tail(fs))

\* C1: the items returned are the parsed lines of the first path in line
\* order, then those of the second, and so on.
C1_FileThenLineOrder ==
    pc = "done" => ret = Ok(ConcatFiles(files))

\* [A, B] with A holding a1, a2 and B holding b1 gave [a1, a2, b1]
C1_Witness ==
    /\ pc = "done" /\ Len(files) = 2
    /\ Len(ValidItems(files[1].lines)) = 2
    /\ Len(ValidItems(files[2].lines)) = 1
    /\ Len(ret.val) = 3
    /\ ret.val[1] # ret.val[2] /\ ret.val[2] # ret.val[3]

ValidCount(ls) ==
    Cardinality({i \in 1..Len(ls) : IsUtf8(ls[i]) /\ MapItem_parse(TextOf(ls[i])).ok})

\* C2: a line that does not parse never fails the load of its file: the
\* file's load ends Ok, with one item for each line that parses and none for
\* the others.
C2_ParseErrorNotFatal ==
    /\ pc = "failed" => files[fi].kind = "missing"
    /\ (pc = "reading" /\ files[fi].kind = "file") =>
          /\ cur = ValidItems(SubSeq(files[fi].lines, 1, pos))
          /\ Len(cur) = ValidCount(SubSeq(files[fi].lines, 1, pos))
    /\ (pc \in {"loop", "done"} /\ fi > 0) =>
          /\ cur = ValidItems(files[fi].lines)
          /\ Len(cur) = ValidCount(files[fi].lines)

\* a file of a good line, a bad line and a good line was loaded Ok with two
\* items
C2_Witness ==
    /\ pc = "loop" /\ fi > 0
    /\ Len(files[fi].lines) = 3
    /\ \A i \in 1..3 : IsUtf8(files[fi].lines[i])
    /\ ParseOf[files[fi].lines[1]].ok
    /\ ~ParseOf[files[fi].lines[2]].ok
    /\ ParseOf[files[fi].lines[3]].ok
    /\ Len(cur) = 2

MissingPaths == {i \in 1..Len(files) : files[i].kind = "missing"}

\* C3: with a path that cannot be opened, the load returns no MapItems, and,
\* once it failed, an error; no path after the failing one is opened.
C3_OpenFailureIsFatal ==
    MissingPaths # {} =>
        /\ ret = NoResult \/ ~ret.ok
        /\ \A i \in opened : \A m \in MissingPaths : i <= m
        /\ (fi \in MissingPaths) => (pc = "failed" /\ ret = Err("io"))

\* the second path failed to open after the first one gave items
C3_Witness ==
    /\ pc = "failed" /\ fi = 2 /\ Len(items) > 0
    /\ ret = Err("io")

\* C9: a load during which a read of an opened file failed does not return a
\* MapItems.
C9_ReadFailureIsFatal ==
    (read_err /\ ret # NoResult) => ~ret.ok

\* C10: every load ends, with a MapItems or with an error.
C10_LoadingFinishes == <>(ret # NoResult)

(***************************************************************************)
(* The claims about drawing, under DrawSpec.                               *)
(***************************************************************************)
\* a <= b on f32
FLeq(a, b) == FLess(a, b) \/ (a = b /\ a.k # "nan")

\* the x and the y coordinates the items hold
XsOf(its) ==
    UNION { IF its[i].type = "LineItem" THEN {its[i].from.x, its[i].to.x}
            ELSE {its[i].point.x} : i \in 1..Len(its) }

YsOf(its) ==
    UNION { IF its[i].type = "LineItem" THEN {its[i].from.y, its[i].to.y}
            ELSE {its[i].point.y} : i \in 1..Len(its) }

\* origin and extent are the least element of S and its distance to the
\* greatest, which is not negative
Encloses(origin, extent, S) ==
    \E lo \in S, hi \in S :
        /\ \A c \in S : FLeq(lo, c) /\ FLeq(c, hi)
        /\ origin = lo
        /\ extent = FSub(hi, lo)
        /\ FLeq(Num(0), extent)

\* C7: the view box is the least rectangle around the (x, y) of the items,
\* and (0, 0, 0, 0) for no items.
C7_MinimalEnclosingBox ==
    dpc # "view_box" =>
        IF map_items = <<>>
        THEN view_box = <<Num(0), Num(0), Num(0), Num(0)>>
        ELSE /\ Encloses(view_box[1], view_box[3], XsOf(map_items))
             /\ Encloses(view_box[2], view_box[4], YsOf(map_items))

\* the primitive the i-th item is drawn as
IsPrimitiveOf(e, it) ==
    IF it.type = "LineItem"
    THEN /\ e.el = "path"
         /\ <<e.mx, e.my>> = <<it.from.x, it.from.y>>
         /\ <<e.lx, e.ly>> = <<it.to.x, it.to.y>>
         /\ e.stroke = [fn |-> "rgb", r |-> it.color.r, g |-> it.color.g, b |-> it.color.b]
    ELSE /\ e.el = "circle"
         /\ <<e.cx, e.cy>> = <<it.point.x, it.point.y>>
         /\ e.r = 3
         /\ e.fill = [fn |-> "rgb", r |-> it.color.r, g |-> it.color.g, b |-> it.color.b]

\* C8: between the opening and the closing tag the document holds one
\* primitive per item, in the order of the items: a stroked path for a
\* LineItem, a filled circle of radius 3 for a PointItem.
C8_OnePrimitivePerItem ==
    /\ dpc = "items" =>
          /\ svg[1].el = "svg"
          /\ Len(svg) - 1 <= Len(map_items)
          /\ \A i \in 1..(Len(svg) - 1) : IsPrimitiveOf(svg[i + 1], map_items[i])
    /\ dpc = "done" =>
          /\ svg[1].el = "svg" /\ svg[Len(svg)].el = "/svg"
          /\ Len(svg) = Len(map_items) + 2
          /\ \A i \in 1..Len(map_items) : IsPrimitiveOf(svg[i + 1], map_items[i])

\* a line, a point and a line were drawn
C8_Witness ==
    /\ dpc = "done" /\ Len(map_items) = 3
    /\ map_items[1].type = "LineItem"
    /\ map_items[2].type = "PointItem"
    /\ map_items[3].type = "LineItem"
    /\ map_items[1] # map_items[3]

====
